---- MODULE Spec2Model ----
(***************************************************************************)
(* A model of the in-memory to-do list of                                  *)
(* src/Project/project_programming_2_completed.py: the Task hierarchy,     *)
(* Reminder, the reminder channels with their ReminderManager, ToDoApp,    *)
(* and the run of __main__.                                                *)
(*                                                                         *)
(* Task objects live in a heap (objs, indexed by object identity, in the   *)
(* order of construction); the list ToDoApp.tasks holds references into    *)
(* it, so an object may be stored more than once, later than it was made,  *)
(* or never.  Every print of the program is a line of out, the lines       *)
(* printed by the last call; ret is what the last call returned and op the *)
(* call itself.  added records the arguments of the add_task calls so far, *)
(* in call order.                                                          *)
(***************************************************************************)
EXTENDS Integers, Sequences, FiniteSets, TLC

VARIABLES
    objs,      \* the Task objects constructed so far: objs[id] holds the fields
               \* set by __init__ (lines 10-14, 46, 60) and the object's class
    tasks,     \* ToDoApp.tasks (line 98): references into objs
    managers,  \* ReminderManager.reminder_service (line 88) of each manager
               \* constructed so far, under the name __main__ gives it
    clock,     \* what datetime.now() (line 14) read last
    op,        \* the last call: its name, then its arguments
    out,       \* the lines the last call printed
    ret,       \* the value the last call returned
    added      \* the arguments of the add_task calls so far, in call order

vars == <<objs, tasks, managers, clock, op, out, ret, added>>

(* ------------------------------ bounds -------------------------------- *)

\* Task objects constructed in one run of Spec and SpecApp.  The scenario
\* and the run of __main__ construct the objects their calls name.
MaxObjs == 2
\* Length of ToDoApp.tasks.
MaxTasks == 3

(* ------------------------ values of the program ----------------------- *)

\* Python's None, as a reference: object identities are 1, 2, ...
NoneRef == 0

DefaultPriority == "Medium"
PriorityTaskDefault == "High"
AdvancedTaskDefault == "Low"

(* ------------------------------ strings ------------------------------- *)

\* Python's `sub in s`.
Contains(s, sub) ==
    \E i \in 1..(Len(s) - Len(sub) + 1) : SubSeq(s, i, i + Len(sub) - 1) = sub

\* Python's s.endswith(suffix).
EndsWith(s, suffix) ==
    /\ Len(suffix) <= Len(s)
    /\ SubSeq(s, Len(s) - Len(suffix) + 1, Len(s)) = suffix

\* Python's s.startswith(prefix).
StartsWith(s, prefix) ==
    /\ Len(prefix) <= Len(s)
    /\ SubSeq(s, 1, Len(prefix)) = prefix

(* ----------------------------- class Task ----------------------------- *)

\* Mutant of TaskInit: a task that starts out completed.
TaskInitCompleted(cls, title, priority, now) ==
    [cls |-> cls, title |-> title, completed |-> TRUE,
     priority |-> priority, created_at |-> now]

\* Task.__init__(self, title, priority), with the class of the object.
TaskInit(cls, title, priority, now) ==
    [cls |-> cls, title |-> title, completed |-> FALSE,
     priority |-> priority, created_at |-> now]

\* PriorityTask.__init__
PriorityTaskInit(title, priority, now) ==
    TaskInit("PriorityTask", title, priority, now)

\* Mutant of RecurringTaskInit: the recurrence passed on as the priority.
RecurringTaskInitAsPriority(title, recurrence, now) ==
    [cls |-> "RecurringTask", title |-> title, completed |-> FALSE,
     priority |-> recurrence, created_at |-> now, recurrence |-> recurrence]

\* RecurringTask.__init__: super().__init__(title), then the recurrence.
RecurringTaskInit(title, recurrence, now) ==
    TaskInit("RecurringTask", title, DefaultPriority, now)
        @@ [recurrence |-> recurrence]

\* AdvancedTask.__init__
AdvancedTaskInit(title, priority, extra_notes, now) ==
    TaskInit("AdvancedTask", title, priority, now)
        @@ [extra_notes |-> extra_notes]

\* Mutant of UpdateStatus: the update also refreshes the timestamp.
UpdateStatusTouch(t, status) ==
    [t EXCEPT !.completed = status, !.created_at = 0]

\* Mutant of UpdateStatus: the flag is toggled, whatever the argument.
UpdateStatusToggle(t, status) == [t EXCEPT !.completed = ~t.completed]

\* Task.update_status
UpdateStatus(t, status) == [t EXCEPT !.completed = status]

\* Task.__str__
TaskStr(t) ==
    LET status == IF t.completed THEN "Completed" ELSE "Pending"
    IN  "Task: " \o t.title \o ", Priority: " \o t.priority
            \o ", Status: " \o status

\* Mutant of Str: AdvancedTask.__str__ replaces the base rendering.
StrNotesOnly(t) ==
    CASE t.cls = "RecurringTask" -> TaskStr(t) \o ", Recurrence: " \o t.recurrence
      [] t.cls = "AdvancedTask"  -> "Notes: " \o t.extra_notes
      [] OTHER                   -> TaskStr(t)

\* str(task): the __str__ of the object's class.
Str(t) ==
    CASE t.cls = "RecurringTask" -> TaskStr(t) \o ", Recurrence: " \o t.recurrence
      [] t.cls = "AdvancedTask"  -> TaskStr(t) \o ", Notes: " \o t.extra_notes
      [] OTHER                   -> TaskStr(t)

(* ------------------------- constructor calls -------------------------- *)

\* The constructor calls of __main__, in its order.
MainCalls ==
    << [cls |-> "Task", title |-> "Buy groceries"],
       [cls |-> "PriorityTask", title |-> "Complete project", priority |-> "High"],
       [cls |-> "RecurringTask", title |-> "Workout", recurrence |-> "Daily"],
       [cls |-> "AdvancedTask", title |-> "Plan vacation", priority |-> "Medium",
        extra_notes |-> "Include family preferences."] >>

\* A call of the one constructor __main__ leaves out, SimpleTask, with a
\* status word for a title.
OtherCalls == { [cls |-> "SimpleTask", title |-> "Completed"] }

\* The constructor calls a run draws from.  A call without a priority takes
\* the default of its class.
CtorCalls == {MainCalls[i] : i \in DOMAIN MainCalls} \cup OtherCalls

\* The priority argument of a call, or the default of the signature.
PriorityArg(c, default) ==
    IF "priority" \in DOMAIN c THEN c.priority ELSE default

\* The object a constructor call makes when datetime.now() reads `now`.
\* SimpleTask inherits Task.__init__.
New(c, now) ==
    CASE c.cls = "Task" ->
            TaskInit("Task", c.title, PriorityArg(c, DefaultPriority), now)
      [] c.cls = "SimpleTask" ->
            TaskInit("SimpleTask", c.title, PriorityArg(c, DefaultPriority), now)
      [] c.cls = "PriorityTask" ->
            PriorityTaskInit(c.title, PriorityArg(c, PriorityTaskDefault), now)
      [] c.cls = "RecurringTask" ->
            RecurringTaskInit(c.title, c.recurrence, now)
      [] c.cls = "AdvancedTask" ->
            AdvancedTaskInit(c.title, PriorityArg(c, AdvancedTaskDefault),
                             IF "extra_notes" \in DOMAIN c THEN c.extra_notes ELSE "",
                             now)

\* Titles passed to find_task and update_task_status: every constructed
\* title, and one that differs from a constructed title only in case.
Titles == {c.title : c \in CtorCalls} \cup {"buy groceries"}

\* The readings of datetime.now() in a run that constructs n objects: the
\* program stores them and never computes with them, and n values give
\* every way n readings can be equal, earlier or later.
Times(n) == 0..(n - 1)

\* Reminder texts passed to send_reminder (those of __main__).
Texts == {"Deadline is tomorrow!", "Don't forget your workout!"}

(* ------------------------------ reminders ----------------------------- *)

\* The ReminderManager constructions of __main__: the name of the manager
\* and the class of the service it is given, an object without fields.
ManagerCalls == [email_manager |-> "EmailReminder", sms_manager |-> "SMSReminder"]

\* ReminderManager.__init__: the managers after the one of the name is
\* constructed with the service.
ReminderManagerInit(ms, m, service) ==
    [n \in DOMAIN ms \cup {m} |-> IF n = m THEN service ELSE ms[n]]

\* The reminder_type a Reminder is constructed with.
ReminderTypes == {"SMS", "Email"}

\* Reminder.send_reminder, of a Reminder with the reminder_type.
ReminderSendReminder(reminder_type, t) ==
    <<"Reminder sent for task: " \o t.title \o " via " \o reminder_type>>

\* EmailReminder.set_reminder
EmailSetReminder(t, reminder_text) ==
    <<"Email reminder for task '" \o t.title \o "': " \o reminder_text>>

\* Mutant of SMSSetReminder: the text is left out.
SMSSetReminderNoText(t, reminder_text) ==
    <<"SMS reminder for task '" \o t.title \o "'">>

\* SMSReminder.set_reminder
SMSSetReminder(t, reminder_text) ==
    <<"SMS reminder for task '" \o t.title \o "': " \o reminder_text>>

\* reminder_service.set_reminder(task, reminder_text), by the service's class.
SetReminder(service, t, reminder_text) ==
    CASE service = "EmailReminder" -> EmailSetReminder(t, reminder_text)
      [] service = "SMSReminder"   -> SMSSetReminder(t, reminder_text)

(* ------------------------------ ToDoApp ------------------------------- *)

\* Mutant of FindFrom: the last position whose task has the title.
RECURSIVE FindFromLast(_, _, _, _)
FindFromLast(ts, h, title, i) ==
    IF i > Len(ts) THEN 0
    ELSE LET later == FindFromLast(ts, h, title, i + 1)
         IN  IF later > 0 THEN later
             ELSE IF h[ts[i]].title = title THEN i ELSE 0

\* The loop of find_task from position i of the list ts over heap h: the
\* first position whose task has the title, 0 when the loop runs out.
RECURSIVE FindFrom(_, _, _, _)
FindFrom(ts, h, title, i) ==
    IF i > Len(ts) THEN 0
    ELSE IF h[ts[i]].title = title THEN i
    ELSE FindFrom(ts, h, title, i + 1)

\* ToDoApp.find_task: the value returned and the lines printed.
FindTask(ts, h, title) ==
    LET i == FindFrom(ts, h, title, 1)
    IN  IF i > 0
        THEN [ret |-> ts[i], out |-> <<>>]
        ELSE [ret |-> NoneRef, out |-> <<"Task '" \o title \o "' not found.">>]

\* The line update_task_status prints after a successful update.
UpdatedLine(title, status) ==
    "Task '" \o title \o "' status updated to: "
        \o (IF status THEN "Completed" ELSE "Pending")

\* Mutant of UpdateTaskStatus: the "updated" line is printed outside the if.
UpdateTaskStatusAlwaysPrints(ts, h, title, status) ==
    LET r == FindTask(ts, h, title)
    IN  IF r.ret # NoneRef
        THEN [objs |-> [h EXCEPT ![r.ret] = UpdateStatus(h[r.ret], status)],
              out  |-> r.out \o <<UpdatedLine(title, status)>>]
        ELSE [objs |-> h, out |-> r.out \o <<UpdatedLine(title, status)>>]

\* Mutant of UpdateTaskStatus: every stored task with the title is updated.
UpdateTaskStatusAll(ts, h, title, status) ==
    LET r == FindTask(ts, h, title)
        stored == {ts[i] : i \in 1..Len(ts)}
    IN  IF r.ret # NoneRef
        THEN [objs |-> [id \in DOMAIN h |->
                          IF id \in stored /\ h[id].title = title
                          THEN UpdateStatus(h[id], status) ELSE h[id]],
              out  |-> r.out \o <<UpdatedLine(title, status)>>]
        ELSE [objs |-> h, out |-> r.out]

\* ToDoApp.update_task_status: the heap after the call and the lines printed.
UpdateTaskStatus(ts, h, title, status) ==
    LET r == FindTask(ts, h, title)
    IN  IF r.ret # NoneRef
        THEN [objs |-> [h EXCEPT ![r.ret] = UpdateStatus(h[r.ret], status)],
              out  |-> r.out \o <<UpdatedLine(title, status)>>]
        ELSE [objs |-> h, out |-> r.out]

\* ToDoApp.display_tasks: the lines printed.
DisplayTasksOut(ts, h) ==
    IF ts = <<>>
    THEN <<"No tasks available.">>
    ELSE <<"Tasks List:">> \o [i \in 1..Len(ts) |-> Str(h[ts[i]])]

\* Mutant of AddTaskList: the task is put at the front.
AddTaskListFront(ts, id) == <<id>> \o ts

\* ToDoApp.add_task: the list after the call and the line printed.
AddTaskList(ts, id) == Append(ts, id)

AddTaskOut(h, id) == <<"Task added: " \o Str(h[id])>>

(* ------------------------------ actions ------------------------------- *)

\* app = ToDoApp(): no task, and no manager constructed yet.
Init ==
    /\ objs = <<>>
    /\ tasks = <<>>
    /\ managers = <<>>
    /\ clock = 0
    /\ op = <<"init">>
    /\ out = <<>>
    /\ ret = NoneRef
    /\ added = <<>>

\* A constructor call.  datetime.now() reads the local wall clock, which
\* since the last reading has stood still, advanced or been set back.
ConstructWith(c, n) ==
    /\ \E now \in Times(n) :
          /\ objs' = Append(objs, New(c, now))
          /\ clock' = now
    /\ op' = <<"construct", Len(objs) + 1>>
    /\ out' = <<>>
    /\ ret' = Len(objs) + 1
    /\ UNCHANGED <<tasks, managers, added>>

\* Cls(...): one of the constructor calls
Construct ==
    /\ Len(objs) < MaxObjs
    /\ \E c \in CtorCalls : ConstructWith(c, MaxObjs)

\* app.add_task(task) with the object
AddTaskOf(id) ==
    /\ tasks' = AddTaskList(tasks, id)
    /\ out' = AddTaskOut(objs, id)
    /\ op' = <<"add_task", id>>
    /\ added' = Append(added, id)
    /\ ret' = NoneRef
    /\ UNCHANGED <<objs, managers, clock>>

\* app.add_task(task), with any object constructed so far: stored already
\* or not, updated already or not
AddTask ==
    /\ Len(tasks) < MaxTasks
    /\ \E id \in DOMAIN objs : AddTaskOf(id)

\* app.display_tasks()
DisplayTasks ==
    /\ out' = DisplayTasksOut(tasks, objs)
    /\ op' = <<"display_tasks">>
    /\ ret' = NoneRef
    /\ UNCHANGED <<objs, tasks, managers, clock, added>>

\* app.find_task(title)
FindTaskCall ==
    \E title \in Titles :
        LET r == FindTask(tasks, objs, title)
        IN  /\ ret' = r.ret
            /\ out' = r.out
            /\ op' = <<"find_task", title>>
            /\ UNCHANGED <<objs, tasks, managers, clock, added>>

\* app.update_task_status(title, status)
UpdateTaskStatusCall ==
    \E title \in Titles, status \in BOOLEAN :
        LET r == UpdateTaskStatus(tasks, objs, title, status)
        IN  /\ objs' = r.objs
            /\ out' = r.out
            /\ op' = <<"update_task_status", title, status>>
            /\ ret' = NoneRef
            /\ UNCHANGED <<tasks, managers, clock, added>>

\* task.update_status(status), called on an object directly
TaskUpdateStatus ==
    \E id \in DOMAIN objs, status \in BOOLEAN :
        /\ objs' = [objs EXCEPT ![id] = UpdateStatus(objs[id], status)]
        /\ op' = <<"update_status", id, status>>
        /\ out' = <<>>
        /\ ret' = NoneRef
        /\ UNCHANGED <<tasks, managers, clock, added>>

\* manager = ReminderManager(Service()) with the service and under the name
ConstructManagerWith(m) ==
    /\ managers' = ReminderManagerInit(managers, m, ManagerCalls[m])
    /\ op' = <<"construct_manager", m>>
    /\ out' = <<>>
    /\ ret' = NoneRef
    /\ UNCHANGED <<objs, tasks, clock, added>>

\* One of the manager constructions of __main__, at any time and any number
\* of times.
ConstructManager == \E m \in DOMAIN ManagerCalls : ConstructManagerWith(m)

\* manager.send_reminder(task, reminder_text), of a manager constructed
SendReminder ==
    \E m \in DOMAIN managers, id \in DOMAIN objs, text \in Texts :
        /\ out' = SetReminder(managers[m], objs[id], text)
        /\ op' = <<"send_reminder", m, id, text>>
        /\ ret' = NoneRef
        /\ UNCHANGED <<objs, tasks, managers, clock, added>>

\* Reminder(reminder_type).send_reminder(task)
ReminderSend ==
    \E reminder_type \in ReminderTypes, id \in DOMAIN objs :
        /\ out' = ReminderSendReminder(reminder_type, objs[id])
        /\ op' = <<"Reminder.send_reminder", reminder_type, id>>
        /\ ret' = NoneRef
        /\ UNCHANGED <<objs, tasks, managers, clock, added>>

Next ==
    \/ Construct
    \/ ConstructManager
    \/ AddTask
    \/ DisplayTasks
    \/ FindTaskCall
    \/ UpdateTaskStatusCall
    \/ TaskUpdateStatus
    \/ SendReminder
    \/ ReminderSend

Spec == Init /\ [][Next]_vars

\* The runs that change a task only through the application.
NextApp ==
    \/ Construct
    \/ AddTask
    \/ DisplayTasks
    \/ FindTaskCall
    \/ UpdateTaskStatusCall

SpecApp == Init /\ [][NextApp]_vars

\* The constructor calls of the end-to-end scenario: lines 130-132.
ScenarioCalls == SubSeq(MainCalls, 1, 3)

\* The next constructor call of the scenario
ScenarioConstruct ==
    /\ Len(objs) < Len(ScenarioCalls)
    /\ ConstructWith(ScenarioCalls[Len(objs) + 1], Len(ScenarioCalls))

\* The runs whose objects are those of the scenario, constructed in its
\* order; every other call is free.
NextScenario ==
    \/ ScenarioConstruct
    \/ ConstructManager
    \/ AddTask
    \/ DisplayTasks
    \/ FindTaskCall
    \/ UpdateTaskStatusCall
    \/ TaskUpdateStatus
    \/ SendReminder
    \/ ReminderSend

SpecScenario == Init /\ [][NextScenario]_vars

\* The run of __main__ itself, call after call; op is the call made last.
MainNext ==
    \/ /\ Len(objs) < Len(MainCalls)
       /\ ConstructWith(MainCalls[Len(objs) + 1], Len(MainCalls))
    \/ /\ Len(objs) = Len(MainCalls)
       /\ op[1] \in {"construct", "add_task"}
       /\ Len(tasks) < Len(MainCalls)
       /\ AddTaskOf(Len(tasks) + 1)
    \/ /\ op = <<"add_task", Len(MainCalls)>>
       /\ DisplayTasks
    \/ /\ op = <<"display_tasks">>
       /\ UpdateTaskStatusCall
       /\ op' = <<"update_task_status", "Buy groceries", TRUE>>
    \/ /\ op[1] = "update_task_status"
       /\ ConstructManagerWith("email_manager")
    \/ /\ op = <<"construct_manager", "email_manager">>
       /\ ConstructManagerWith("sms_manager")
    \/ /\ op = <<"construct_manager", "sms_manager">>
       /\ SendReminder
       /\ op' = <<"send_reminder", "email_manager", 2, "Deadline is tomorrow!">>
    \/ /\ op = <<"send_reminder", "email_manager", 2, "Deadline is tomorrow!">>
       /\ SendReminder
       /\ op' = <<"send_reminder", "sms_manager", 3, "Don't forget your workout!">>

SpecMain == Init /\ [][MainNext]_vars

(* ------------------------- notions of the claims ---------------------- *)

\* The positions of the list whose task has the title.
Positions(title) == {i \in 1..Len(tasks) : objs[tasks[i]].title = title}

\* The same, in the state after the step.
PositionsAfter(title) == {i \in 1..Len(tasks') : objs'[tasks'[i]].title = title}

Lowest(S) == CHOOSE i \in S : \A j \in S : i <= j

\* The objects stored in the list.
Stored == {tasks[i] : i \in 1..Len(tasks)}

\* The first position of the list that holds the object.
FirstAt(id) == Lowest({i \in 1..Len(tasks) : tasks[i] = id})

NotFoundLine(title) == "Task '" \o title \o "' not found."

(* -------------------------------- C1 ---------------------------------- *)

C1_Step ==
    (op'[1] = "update_task_status" /\ Positions(op'[2]) # {}) =>
        LET id == tasks[Lowest(Positions(op'[2]))]
        IN  /\ objs'[id].completed = op'[3]
            /\ objs' = [objs EXCEPT ![id].completed = op'[3]]
            /\ \A j \in DOMAIN objs :
                  /\ j # id => objs'[j].completed = objs[j].completed
                  /\ objs'[j].title = objs[j].title
                  /\ objs'[j].priority = objs[j].priority
                  /\ objs'[j].created_at = objs[j].created_at
            /\ tasks' = tasks

\* C1: update_task_status(title, newStatus) with a title some stored task has
\* sets the completed flag of exactly one task, the first stored task with
\* that title, to newStatus; the completed flag of every other task, the
\* title, priority and created_at of every task, and the task sequence stay
\* as they were.
C1_UpdateChangesOnlyTheFlag == [][C1_Step]_vars

\* An update to Completed has hit the first of two stored objects with the
\* same title, and the second one is still pending.
C1_Witness ==
    /\ op[1] = "update_task_status"
    /\ op[3] = TRUE
    /\ \E i, j \in 1..Len(tasks) :
          /\ i < j
          /\ tasks[i] # tasks[j]
          /\ objs[tasks[i]].title = op[2]
          /\ objs[tasks[j]].title = op[2]
          /\ objs[tasks[i]].completed
          /\ ~objs[tasks[j]].completed

(* -------------------------------- C2 ---------------------------------- *)

C2_Step ==
    op'[1] = "find_task" =>
        LET title == op'[2]
        IN  /\ Positions(title) # {} =>
                  /\ ret' = tasks[Lowest(Positions(title))]
                  /\ out' = <<>>
            /\ Positions(title) = {} =>
                  /\ ret' = NoneRef
                  /\ out' = <<NotFoundLine(title)>>
            /\ (ret' = NoneRef) <=> (Positions(title) = {})
            /\ tasks' = tasks
            /\ objs' = objs

\* C2: find_task(title) returns the task at the lowest index whose title
\* equals the argument exactly and prints nothing; it returns None if and only
\* if no stored task has the title, and then prints exactly one "not found"
\* line; the task sequence and every task's fields stay as they were.
C2_FindTaskFirstMatch == [][C2_Step]_vars

\* A lookup found the first of two distinct stored objects of its title,
\* which were stored in the other order than they were constructed.
C2_Witness ==
    /\ op[1] = "find_task"
    /\ Len(tasks) >= 2
    /\ tasks[1] > tasks[2]
    /\ objs[tasks[1]].title = op[2]
    /\ objs[tasks[2]].title = op[2]
    /\ ret = tasks[1]

(* -------------------------------- C3 ---------------------------------- *)

C3_Step ==
    op'[1] = "update_task_status" =>
        LET title == op'[2]
            status == op'[3]
        IN  /\ Len(out') = 1
            /\ Positions(title) # {} => out'[1] = UpdatedLine(title, status)
            /\ Positions(title) = {} =>
                  /\ out'[1] = NotFoundLine(title)
                  /\ out'[1] # UpdatedLine(title, status)
                  /\ objs' = objs
                  /\ tasks' = tasks

\* C3: every update_task_status(title, newStatus) prints exactly one line:
\* the "updated" line when a stored task has the title, the lookup's "not
\* found" line when none has; with the title absent no completed flag and no
\* element of the task sequence changes.
C3_UpdateOneNotification == [][C3_Step]_vars

\* An update for a title that differs only in case from a stored title
\* printed the "not found" line.
C3_Witness ==
    /\ op[1] = "update_task_status"
    /\ op[2] = "buy groceries"
    /\ \E i \in 1..Len(tasks) : objs[tasks[i]].title = "Buy groceries"
    /\ out = <<"Task 'buy groceries' not found.">>

(* -------------------------------- C4 ---------------------------------- *)

C4_Step ==
    /\ tasks' = added'
    /\ op'[1] = "display_tasks" =>
          /\ Len(added) = 0 => out' = <<"No tasks available.">>
          /\ Len(added) > 0 =>
                /\ Len(out') = Len(added) + 1
                /\ out'[1] = "Tasks List:"
                /\ \A i \in 1..Len(added) : out'[i + 1] = Str(objs[added[i]])
          /\ tasks' = tasks
          /\ objs' = objs

\* C4: after any calls of which N are add_task calls, display_tasks prints,
\* when N = 0, the one "no tasks" line, and when N > 0 the header and then
\* exactly N rendered entries, the added tasks in the order of their add_task
\* calls (the sequence is never reordered, shortened or de-duplicated);
\* display_tasks changes neither the sequence nor any task field.
C4_DisplayInsertionOrder == [][C4_Step]_vars

\* A display of three added tasks, two of them distinct objects, one of them
\* added twice, after a status update.
C4_Witness ==
    /\ op[1] = "display_tasks"
    /\ Len(added) = 3
    /\ Len(out) = 4
    /\ Cardinality(Stored) = 2
    /\ \E i \in 1..Len(tasks) : objs[tasks[i]].completed

(* -------------------------------- C5 ---------------------------------- *)

\* The step is a status update on the object: Task.update_status on it, or
\* update_task_status with a title that find_task resolves to it.
StatusUpdateOn(id) ==
    \/ op'[1] = "update_status" /\ op'[2] = id
    \/ /\ op'[1] = "update_task_status"
       /\ FindTask(tasks, objs, op'[2]).ret = id

C5_Step ==
    /\ objs' # objs =>
        /\ \A id \in DOMAIN objs :
              /\ objs'[id].title = objs[id].title
              /\ objs'[id].priority = objs[id].priority
              /\ objs'[id].created_at = objs[id].created_at
              /\ objs'[id].completed # objs[id].completed => StatusUpdateOn(id)
        /\ \A id \in DOMAIN objs' \ DOMAIN objs : objs'[id].completed = FALSE
    /\ op'[1] \in {"add_task", "display_tasks", "find_task", "send_reminder",
                   "Reminder.send_reminder"} => objs' = objs

\* C5: over every sequence of operations a task keeps the title, priority
\* and created_at set at construction; its completed flag is false at
\* construction and differs between two consecutive states only when the
\* step is a status update on that task; add_task, display_tasks, find_task
\* and send_reminder never change it.
C5_FieldsChangeOnlyByStatusUpdate == [][C5_Step]_vars

\* A status update through the application has completed one task while
\* another one, constructed later at an earlier reading of the clock and
\* stored before it, is pending.
C5_Witness ==
    /\ op[1] = "update_task_status"
    /\ op[3] = TRUE
    /\ tasks = <<2, 1>>
    /\ objs[1].completed
    /\ ~objs[2].completed
    /\ objs[1].title = op[2]
    /\ objs[2].created_at < objs[1].created_at

(* -------------------------------- C6 ---------------------------------- *)

\* C6: for every task variant and boolean v, the rendering right after
\* update_status(v) shows "Status: Completed" when v is true and "Status:
\* Pending" when v is false, whatever the flag was before; update_status(v)
\* once more leaves the task and its rendering as they are.
C6_UpdateStatusRendering ==
    op[1] = "update_status" =>
        LET t == objs[op[2]]
            v == op[3]
        IN  /\ v => Contains(Str(t), "Status: Completed")
            /\ ~v => Contains(Str(t), "Status: Pending")
            /\ t.completed = v
            /\ UpdateStatus(t, v) = t
            /\ Str(UpdateStatus(t, v)) = Str(t)

\* update_status(False) was called on a RecurringTask.
C6_Witness ==
    /\ op[1] = "update_status"
    /\ op[3] = FALSE
    /\ objs[op[2]].cls = "RecurringTask"
    /\ Str(objs[op[2]]) =
          "Task: Workout, Priority: Medium, Status: Pending, Recurrence: Daily"

(* -------------------------------- C7 ---------------------------------- *)

\* The medium label of a channel's notification.
Label(service) == IF service = "EmailReminder" THEN "Email" ELSE "SMS"

C7_Step ==
    op'[1] = "send_reminder" =>
        LET service == managers[op'[2]]
            t == objs[op'[3]]
            text == op'[4]
            rest == " reminder for task '" \o t.title \o "': " \o text
        IN  /\ out' = <<Label(service) \o rest>>
            /\ EmailSetReminder(t, text) = <<"Email" \o rest>>
            /\ SMSSetReminder(t, text) = <<"SMS" \o rest>>
            /\ objs' = objs
            /\ tasks' = tasks
            /\ managers' = managers

\* C7: send_reminder(task, text) prints exactly the one line that the channel
\* bound at construction prints for (task, text) and changes no task or list
\* state; the lines of an EmailReminder-bound and an SMSReminder-bound
\* manager for the same (task, text) are the medium label followed by the
\* same rest, which carries the title and the text.
C7_ReminderDelegation == [][C7_Step]_vars

\* The SMS-bound manager has sent a reminder for a completed RecurringTask
\* that is not in the list.
C7_Witness ==
    /\ op[1] = "send_reminder"
    /\ tasks = <<>>
    /\ managers[op[2]] = "SMSReminder"
    /\ objs[op[3]].cls = "RecurringTask"
    /\ objs[op[3]].completed
    /\ out = <<"SMS reminder for task 'Workout': Don't forget your workout!">>

(* -------------------------------- C8 ---------------------------------- *)

\* A base Task with the same title, priority and state as the object.
AsBase(t) ==
    [cls |-> "Task", title |-> t.title, completed |-> t.completed,
     priority |-> t.priority, created_at |-> t.created_at]

\* The heap with every object replaced by its base Task.
BaseHeap == [id \in DOMAIN objs |-> AsBase(objs[id])]

\* Every variant behaves in the list operations and in send_reminder as its
\* base Task does.
Substitutable ==
    /\ op[1] = "add_task" =>
          /\ tasks[Len(tasks)] = op[2]
          /\ StartsWith(out[1], AddTaskOut(BaseHeap, op[2])[1])
    /\ op[1] = "find_task" =>
          /\ ret = FindTask(tasks, BaseHeap, op[2]).ret
          /\ out = FindTask(tasks, BaseHeap, op[2]).out
    /\ op[1] = "update_task_status" =>
          LET r == FindTask(tasks, BaseHeap, op[2])
          IN  /\ r.ret # NoneRef =>
                    /\ objs[r.ret].completed = op[3]
                    /\ out = <<UpdatedLine(op[2], op[3])>>
              /\ r.ret = NoneRef => out = r.out
    /\ op[1] = "send_reminder" =>
          out = SetReminder(managers[op[2]], AsBase(objs[op[3]]), op[4])
    /\ op[1] = "Reminder.send_reminder" =>
          out = ReminderSendReminder(op[2], AsBase(objs[op[3]]))

\* The suffix a variant appends to the base rendering.
Suffix(t) ==
    CASE t.cls = "RecurringTask" -> ", Recurrence: " \o t.recurrence
      [] t.cls = "AdvancedTask"  -> ", Notes: " \o t.extra_notes
      [] OTHER                   -> ""

\* What every rendering holds, whatever the flag.
RenderingHolds(t, s) ==
    /\ Contains(s, "Task:")
    /\ Contains(s, t.title)
    /\ Contains(s, t.priority)
    /\ s = Str(AsBase(t)) \o Suffix(t)

\* The lines display_tasks has printed, each with the task it renders.
Displayed == {<<objs[tasks[i]], out[i + 1]>> : i \in 1..Len(tasks)}

\* C8, as claimed: every variant is substitutable for its base Task, and its
\* rendering contains "Task:", the title, the priority, and "Completed"
\* exactly when completed is true and "Pending" exactly when it is false.
C8_Original ==
    /\ Substitutable
    /\ op[1] = "display_tasks" =>
          \A d \in Displayed :
              /\ RenderingHolds(d[1], d[2])
              /\ Contains(d[2], "Completed") <=> d[1].completed
              /\ Contains(d[2], "Pending") <=> ~d[1].completed

\* C8, amended: every variant is substitutable for its base Task; its
\* rendering contains "Task:", the title, the priority, "Completed" whenever
\* completed is true and "Pending" whenever it is false, and is the base
\* rendering with the variant's suffix appended; the base rendering ends with
\* "Status: Completed" exactly when completed is true and with "Status:
\* Pending" exactly when it is false.
C8_VariantsSubstitutable ==
    /\ Substitutable
    /\ op[1] = "display_tasks" =>
          \A d \in Displayed :
              LET base == Str(AsBase(d[1]))
              IN  /\ RenderingHolds(d[1], d[2])
                  /\ d[1].completed => Contains(d[2], "Completed")
                  /\ ~d[1].completed => Contains(d[2], "Pending")
                  /\ EndsWith(base, "Status: Completed") <=> d[1].completed
                  /\ EndsWith(base, "Status: Pending") <=> ~d[1].completed

\* A display of a pending SimpleTask whose title is the word "Completed",
\* stored before a completed AdvancedTask.
C8_Witness ==
    /\ op[1] = "display_tasks"
    /\ \E i, j \in 1..Len(tasks) :
          /\ i < j
          /\ objs[tasks[i]].cls = "SimpleTask"
          /\ ~objs[tasks[i]].completed
          /\ out[i + 1] = "Task: Completed, Priority: Medium, Status: Pending"
          /\ objs[tasks[j]].cls = "AdvancedTask"
          /\ objs[tasks[j]].completed
          /\ out[j + 1] =
                "Task: Plan vacation, Priority: Medium, Status: Completed, Notes: Include family preferences."

(* -------------------------------- C9 ---------------------------------- *)

\* The list of the scenario: from the empty list, Task("Buy groceries"),
\* PriorityTask("Complete project", priority="High") and
\* RecurringTask("Workout", recurrence="Daily") added in this order.
ScenarioList ==
    /\ Len(objs) = 3
    /\ tasks = <<1, 2, 3>>
    /\ objs[1].cls = "Task" /\ objs[1].title = "Buy groceries"
    /\ objs[2].cls = "PriorityTask" /\ objs[2].title = "Complete project"
    /\ objs[3].cls = "RecurringTask" /\ objs[3].title = "Workout"

\* The completed flags of the three tasks.
Flags == <<objs[1].completed, objs[2].completed, objs[3].completed>>

C9_Step ==
    ScenarioList =>
        /\ (op'[1] = "display_tasks" /\ Flags = <<FALSE, FALSE, FALSE>>) =>
              out' = << "Tasks List:",
                        "Task: Buy groceries, Priority: Medium, Status: Pending",
                        "Task: Complete project, Priority: High, Status: Pending",
                        "Task: Workout, Priority: Medium, Status: Pending, Recurrence: Daily" >>
        /\ ( /\ op'[1] = "update_task_status"
             /\ op'[2] = "Buy groceries"
             /\ op'[3] = TRUE
             /\ Flags = <<FALSE, FALSE, FALSE>> ) =>
              /\ objs'[1].completed
              /\ ~objs'[2].completed
              /\ ~objs'[3].completed
              /\ tasks' = <<1, 2, 3>>
              /\ out' = <<"Task 'Buy groceries' status updated to: Completed">>
        /\ (op'[1] = "display_tasks" /\ Flags = <<TRUE, FALSE, FALSE>>) =>
              out' = << "Tasks List:",
                        "Task: Buy groceries, Priority: Medium, Status: Completed",
                        "Task: Complete project, Priority: High, Status: Pending",
                        "Task: Workout, Priority: Medium, Status: Pending, Recurrence: Daily" >>
        /\ ( /\ op'[1] = "send_reminder"
             /\ op'[2] = "email_manager"
             /\ op'[3] = 2
             /\ op'[4] = "Deadline is tomorrow!" ) =>
              out' = <<"Email reminder for task 'Complete project': Deadline is tomorrow!">>

\* C9: in the scenario that adds Task("Buy groceries"), PriorityTask("Complete
\* project", priority="High") and RecurringTask("Workout", recurrence="Daily")
\* to the empty list, display prints the header and the 3 task lines, all
\* pending; after update_task_status("Buy groceries", True) a display shows
\* "Buy groceries" with "Status: Completed" and the other two lines as before,
\* in the same order; a reminder through the email manager for "Complete
\* project" with "Deadline is tomorrow!" prints one line with that title and
\* that text, labelled Email.
C9_EndToEndScenario == [][C9_Step]_vars

\* The end of the scenario: the reminder has been sent after the update.
C9_Witness ==
    /\ ScenarioList
    /\ Flags = <<TRUE, FALSE, FALSE>>
    /\ op[1] = "send_reminder"
    /\ op[2] = "email_manager"
    /\ op[3] = 2
    /\ out = <<"Email reminder for task 'Complete project': Deadline is tomorrow!">>

(* -------------------------------- C10 --------------------------------- *)

\* The object was first added after another stored object of the same title.
LaterDuplicate(id) ==
    \E other \in Stored :
        /\ other # id
        /\ objs[other].title = objs[id].title
        /\ FirstAt(other) < FirstAt(id)

\* C10: with distinct task objects of one title stored, every find_task and
\* update_task_status for the title resolves to the earliest-added one: over
\* the calls of add_task, find_task, update_task_status and display_tasks, a
\* task added after another stored task with the same title keeps completed =
\* false and is never the result of find_task.
C10_DuplicatesResolveToEarliest ==
    /\ \A id \in Stored :
          LaterDuplicate(id) =>
              /\ ~objs[id].completed
              /\ op[1] = "find_task" => ret # id
    /\ (op[1] = "find_task" /\ Positions(op[2]) # {}) =>
          ret = added[Lowest(Positions(op[2]))]
    /\ (op[1] = "update_task_status" /\ Positions(op[2]) # {}) =>
          objs[added[Lowest(Positions(op[2]))]].completed = op[3]

\* An update to Completed with two distinct objects of the title stored, the
\* earlier of them stored again after the later one.
C10_Witness ==
    /\ op[1] = "update_task_status"
    /\ op[3] = TRUE
    /\ Len(tasks) = 3
    /\ tasks[1] # tasks[2]
    /\ tasks[3] = tasks[1]
    /\ objs[tasks[1]].title = op[2]
    /\ objs[tasks[2]].title = op[2]
    /\ objs[tasks[1]].completed
    /\ ~objs[tasks[2]].completed

====
